---- MODULE Spec2Model ----
(***************************************************************************)
(* Job-posting lifecycle and ingestion of the Resume-Analyzer backend.     *)
(*                                                                         *)
(* The document store is modelled by the collections the lifecycle code    *)
(* reads and writes: jobs, applications, job_lifecycle_logs, system_logs.  *)
(* The two log collections are append-only and no handler modelled here    *)
(* reads them, so the model keeps of each only what the last handler       *)
(* appended.  Times are in hours since the start of the behaviour.         *)
(*                                                                         *)
(* Spec        the request handlers and the lifecycle service, one action  *)
(*             per handler, store calls succeeding.                        *)
(* SpecIngest  one orchestrator run after another, every adapter task      *)
(*             advancing one store call (one await) at a time.             *)
(* SpecOverlap two orchestrator runs under way at the same time.           *)
(* SpecConcurrent  request handlers and lifecycle passes overlapping, one  *)
(*             store call at a time.                                       *)
(***************************************************************************)
EXTENDS Integers, Sequences, FiniteSets, TLC

VARIABLES
    jobs,                \* db.jobs: job id -> document, for the ids in the store
    nextId,              \* the next fresh _id of db.jobs
    applications,        \* db.applications: set of [user_id, job_id]
    job_lifecycle_logs,  \* the events the last handler inserted into db.job_lifecycle_logs
    system_logs,         \* the events the last handler inserted into db.system_logs
    now,                 \* datetime.utcnow(), in hours
    ticks,               \* how often the clock has advanced
    requests,            \* how many user requests have been served
    lastOp,              \* the handler that ran last and what it answered
    upstream,            \* what each source serves during the current run
    tasks,               \* the scrape_and_store task of each adapter
    run,                 \* the orchestrator run in progress, if any
    lastRun,             \* the summary returned by the last finished run
    runs,                \* orchestrator runs started so far
    scheduler,           \* the JobLifecycleScheduler instance
    scraper,             \* one adapter's request state: BaseScraper fields and its fetch
    matcher,             \* the last call of JobMatcher.calculate_match_score
    inflight             \* the coroutines that overlap: each one's next store call

vars == <<jobs, nextId, applications, job_lifecycle_logs, system_logs, now,
          ticks, requests, lastOp, upstream, tasks, run, lastRun, runs, scheduler, scraper, matcher,
          inflight>>

auxVars == <<scraper, matcher, inflight>>

ingestVars == <<upstream, tasks, run, lastRun, runs>>

----------------------------------------------------------------------------
(* Bounds of the model.                                                    *)

MaxTicks == 2       \* advances of the clock in a behaviour
MaxRequests == 3    \* save, unsave, apply and application requests in a behaviour
MaxIds == 3         \* _id values the ingestion may use up
MaxRuns == 2        \* orchestrator runs in a behaviour
MaxClock == 64      \* seconds of an adapter's clock
MaxRequestsPerMinute == 2   \* the max_requests_per_minute the adapter is built with
MaxEntries == 8     \* experience entries of a resume

Users == {"u1", "u2"}
JobIds == {1, 2}         \* the _id values db.jobs hands out, in this order

\* The clock advances by 1h, 24h, 23h, 1h, 24h, 23h, ...: when a sweep runs a
\* posting can be exactly 24h old while another is 25h old.
TickStep(i) == IF i % 3 = 1 THEN 1 ELSE IF i % 3 = 2 THEN 24 ELSE 23

----------------------------------------------------------------------------
(* Program constants.                                                      *)

RetentionDays == 1  \* cleanup_expired_jobs: timedelta(days=1)
ExpiryDays == 3     \* unsave_job: mark_job_for_deletion(job_id, days=3)

Hours(days) == days * 24

\* None, or a missing field, of an optional field; a set value is {v}.
Null == {}
Some(v) == {v}

----------------------------------------------------------------------------
(* Documents.                                                              *)

\* jobs.py create_job: the document an administrative create inserts.
AdminJob(t) ==
    [ created_at  |-> t,
      applied_by  |-> << >>,
      saved_by    |-> << >>,
      apply_count |-> 0,
      save_count  |-> 0,
      expires_at  |-> Null,
      job_url     |-> Null,
      summary     |-> Null ]

\* base_scraper.py normalize_job_data: the document an adapter produces.
normalize_job_data(url, t) ==
    [ created_at  |-> t,
      applied_by  |-> << >>,
      saved_by    |-> << >>,
      apply_count |-> 0,
      save_count  |-> 0,
      expires_at  |-> Null,
      job_url     |-> Some(url),
      summary     |-> Null ]

Event(job_id, event_type, user_id) ==
    [job_id |-> job_id, event_type |-> event_type, user_id |-> user_id]

\* log_job_event: one insert into db.job_lifecycle_logs.
log_job_event(job_id, event_type, user_id) ==
    <<Event(job_id, event_type, user_id)>>

\* log_cleanup_event: one insert into db.system_logs.
log_cleanup_event(deleted_count, status) ==
    <<[event |-> "job_cleanup", deleted_count |-> deleted_count, status |-> status]>>

Op(op, job, user, result, count) ==
    [op |-> op, job |-> job, user |-> user, result |-> result, count |-> count]

NoUser == "-"
NoJob == 0

\* the store without document j
Without(store, j) == [k \in DOMAIN store \ {j} |-> store[k]]
\* the store with document j inserted
With(store, j, doc) == [k \in DOMAIN store \cup {j} |-> IF k = j THEN doc ELSE store[k]]

RECURSIVE Pull(_, _)
\* $pull: the list without any occurrence of x
Pull(s, x) ==
    IF s = << >> THEN << >>
    ELSE IF Head(s) = x THEN Pull(Tail(s), x)
    ELSE <<Head(s)>> \o Pull(Tail(s), x)

Range(s) == {s[i] : i \in DOMAIN s}

----------------------------------------------------------------------------
(* Lifecycle service: job_lifecycle.py.                                    *)

\* Variant: the filter forgets the applied_by condition.
CleanupFilter_IgnoresApplied(job, t) ==
    /\ job.created_at < t - Hours(RetentionDays)
    /\ Len(job.saved_by) = 0

\* Variant: $lte in place of $lt.
CleanupFilter_AtCutoff(job, t) ==
    /\ job.created_at <= t - Hours(RetentionDays)
    /\ Len(job.applied_by) = 0
    /\ Len(job.saved_by) = 0

\* The filter of cleanup_expired_jobs' delete_many at time t.  Every insert of
\* the program writes applied_by and saved_by, so $ifNull never sees a missing
\* field and $size is the length of the list.
CleanupFilter(job, t) ==
    /\ job.created_at < t - Hours(RetentionDays)
    /\ Len(job.applied_by) = 0
    /\ Len(job.saved_by) = 0

\* Variant: the pass rewrites apply_count only.
SyncedCounts_ApplyOnly(job) ==
    [job EXCEPT !.apply_count = Len(job.applied_by)]

\* The $set of sync_job_counts for one document.
SyncedCounts(job) ==
    [job EXCEPT !.apply_count = Len(job.applied_by),
                !.save_count = Len(job.saved_by)]

\* mark_job_for_deletion: $set expires_at = utcnow() + days.
mark_job_for_deletion(job, t, days) ==
    [job EXCEPT !.expires_at = Some(t + Hours(days))]

\* remove_deletion_mark: $unset expires_at.
remove_deletion_mark(job) ==
    [job EXCEPT !.expires_at = Null]

\* cleanup_expired_jobs, store calls succeeding: one delete_many, and one
\* cleanup event when something was deleted.
cleanup_expired_jobs ==
    LET doomed == {j \in DOMAIN jobs : CleanupFilter(jobs[j], now)}
        deleted_count == Cardinality(doomed)
    IN  /\ jobs' = [k \in DOMAIN jobs \ doomed |-> jobs[k]]
        /\ system_logs' = IF deleted_count > 0
                          THEN log_cleanup_event(deleted_count, "success")
                          ELSE << >>
        /\ job_lifecycle_logs' = << >>
        /\ lastOp' = Op("cleanup", NoJob, NoUser, "ok", deleted_count)
        /\ UNCHANGED <<nextId, applications, now, ticks, requests>>
        /\ UNCHANGED <<ingestVars, scheduler, auxVars>>

\* sync_job_counts, store calls succeeding: every document read and rewritten.
sync_job_counts ==
    /\ jobs' = [k \in DOMAIN jobs |-> SyncedCounts(jobs[k])]
    /\ job_lifecycle_logs' = << >>
    /\ system_logs' = << >>
    /\ lastOp' = Op("sync", NoJob, NoUser, "ok", Cardinality(DOMAIN jobs))
    /\ UNCHANGED <<nextId, applications, now, ticks, requests>>
    /\ UNCHANGED <<ingestVars, scheduler, auxVars>>

----------------------------------------------------------------------------
(* Save / unsave: routers/jobs.py.                                         *)

\* save_job's update_one: $push saved_by, $inc save_count, $unset expires_at.
SaveUpdate(job, u) ==
    [job EXCEPT !.saved_by = Append(@, u),
                !.save_count = @ + 1,
                !.expires_at = Null]

\* Variant: the repeated save is not recognised.
AlreadySaved_Never(job, u) == FALSE

\* save_job's test for a repeated save: user_id in job.get("saved_by", []).
AlreadySaved(job, u) == u \in Range(job.saved_by)

\* unsave_job's update_one: $pull saved_by, $inc save_count by -1.
UnsaveUpdate(job, u) ==
    [job EXCEPT !.saved_by = Pull(@, u),
                !.save_count = @ - 1]

\* Variant: the re-read looks at saved_by only.
UnsaveMark_SavedOnly(job, t) ==
    IF job.saved_by = << >>
    THEN [job EXCEPT !.expires_at = Some(t + Hours(ExpiryDays))]
    ELSE job

\* unsave_job's re-read: mark the posting when nobody saved or applied to it.
UnsaveMark(job, t) ==
    IF job.saved_by = << >> /\ job.applied_by = << >>
    THEN mark_job_for_deletion(job, t, ExpiryDays)
    ELSE job

save_job(j, u) ==
    /\ requests < MaxRequests
    /\ requests' = requests + 1
    /\ system_logs' = << >>
    /\ UNCHANGED <<nextId, applications, now, ticks>>
    /\ UNCHANGED <<ingestVars, scheduler, auxVars>>
    /\ IF j \notin DOMAIN jobs
       THEN /\ lastOp' = Op("save", j, u, "Job not found", 0)
            /\ job_lifecycle_logs' = << >>
            /\ UNCHANGED jobs
       ELSE IF AlreadySaved(jobs[j], u)
       THEN /\ lastOp' = Op("save", j, u, "Already saved", 0)
            /\ job_lifecycle_logs' = << >>
            /\ UNCHANGED jobs
       ELSE /\ jobs' = [jobs EXCEPT ![j] = remove_deletion_mark(SaveUpdate(@, u))]
            /\ job_lifecycle_logs' = log_job_event(j, "saved", u)
            /\ lastOp' = Op("save", j, u, "Job saved successfully", 0)

unsave_job(j, u) ==
    /\ requests < MaxRequests
    /\ requests' = requests + 1
    /\ jobs' = IF j \in DOMAIN jobs
               THEN [jobs EXCEPT ![j] = UnsaveMark(UnsaveUpdate(@, u), now)]
               ELSE jobs
    /\ job_lifecycle_logs' = log_job_event(j, "unsaved", u)
    /\ system_logs' = << >>
    /\ lastOp' = Op("unsave", j, u, "Job unsaved successfully", 0)
    /\ UNCHANGED <<nextId, applications, now, ticks>>
    /\ UNCHANGED <<ingestVars, scheduler, auxVars>>

----------------------------------------------------------------------------
(* Administrative create / delete: routers/jobs.py.                        *)

create_job ==
    /\ nextId \in JobIds
    /\ jobs' = With(jobs, nextId, AdminJob(now))
    /\ nextId' = nextId + 1
    /\ job_lifecycle_logs' = log_job_event(nextId, "created", "admin")
    /\ system_logs' = << >>
    /\ lastOp' = Op("create", nextId, "admin", "Job created successfully", 0)
    /\ UNCHANGED <<applications, now, ticks, requests>>
    /\ UNCHANGED <<ingestVars, scheduler, auxVars>>

\* process_job calls generate_content synchronously and passes no timeout:
\* while a call is outstanding the coroutine that made it has not yielded,
\* and no other coroutine of the event loop, request handlers included, runs.
Blocked == \E a \in DOMAIN tasks : tasks[a].pc = "enrich"

delete_job(j) ==
    /\ ~Blocked
    /\ system_logs' = << >>
    /\ UNCHANGED <<nextId, applications, now, ticks, requests>>
    /\ UNCHANGED <<ingestVars, scheduler, auxVars>>
    /\ IF j \notin DOMAIN jobs
       THEN /\ lastOp' = Op("delete_job", j, "admin", "Job not found", 0)
            /\ job_lifecycle_logs' = << >>
            /\ UNCHANGED jobs
       ELSE /\ jobs' = Without(jobs, j)
            /\ job_lifecycle_logs' = log_job_event(j, "deleted", "admin")
            /\ lastOp' = Op("delete_job", j, "admin", "Job deleted successfully", 0)

----------------------------------------------------------------------------
(* Applications: routers/apply.py.                                         *)

\* The entry pushed to applied_by.  Its applied_at, status and application_id
\* are read by no handler and are left out.
AppliedEntry(u, external) == [user_id |-> u, external |-> external]

\* apply_to_job's update_one: $push applied_by, $inc apply_count, $unset expires_at.
ApplyUpdate(job, u) ==
    [job EXCEPT !.applied_by = Append(@, AppliedEntry(u, FALSE)),
                !.apply_count = @ + 1,
                !.expires_at = Null]

\* mark_external_application's update_one: $push applied_by, $inc apply_count.
ExternalApplyUpdate(job, u) ==
    [job EXCEPT !.applied_by = Append(@, AppliedEntry(u, TRUE)),
                !.apply_count = @ + 1]

Application(u, j) == [user_id |-> u, job_id |-> j]

apply_to_job(j, u, hasResume) ==
    /\ requests < MaxRequests
    /\ requests' = requests + 1
    /\ system_logs' = << >>
    /\ UNCHANGED <<nextId, now, ticks>>
    /\ UNCHANGED <<ingestVars, scheduler, auxVars>>
    /\ IF Application(u, j) \in applications
       THEN /\ lastOp' = Op("apply", j, u, "Already applied to this job", 0)
            /\ job_lifecycle_logs' = << >>
            /\ UNCHANGED <<jobs, applications>>
       ELSE IF j \notin DOMAIN jobs
       THEN /\ lastOp' = Op("apply", j, u, "Job not found", 0)
            /\ job_lifecycle_logs' = << >>
            /\ UNCHANGED <<jobs, applications>>
       ELSE IF ~hasResume
       THEN /\ lastOp' = Op("apply", j, u, "Please upload a resume first", 0)
            /\ job_lifecycle_logs' = << >>
            /\ UNCHANGED <<jobs, applications>>
       ELSE /\ applications' = applications \cup {Application(u, j)}
            /\ jobs' = [jobs EXCEPT ![j] = ApplyUpdate(@, u)]
            /\ job_lifecycle_logs' = log_job_event(j, "applied", u)
            /\ lastOp' = Op("apply", j, u, "Application submitted successfully", 0)

mark_external_application(j, u) ==
    /\ requests < MaxRequests
    /\ requests' = requests + 1
    /\ job_lifecycle_logs' = << >>
    /\ system_logs' = << >>
    /\ UNCHANGED <<nextId, now, ticks>>
    /\ UNCHANGED <<ingestVars, scheduler, auxVars>>
    /\ IF Application(u, j) \in applications
       THEN /\ lastOp' = Op("apply_external", j, u, "Already marked as applied", 0)
            /\ UNCHANGED <<jobs, applications>>
       ELSE IF j \notin DOMAIN jobs
       THEN /\ lastOp' = Op("apply_external", j, u, "Job not found", 0)
            /\ UNCHANGED <<jobs, applications>>
       ELSE /\ applications' = applications \cup {Application(u, j)}
            /\ jobs' = [jobs EXCEPT ![j] = ExternalApplyUpdate(@, u)]
            /\ lastOp' = Op("apply_external", j, u, "Application marked successfully", 0)

delete_application(j, u) ==
    /\ requests < MaxRequests
    /\ requests' = requests + 1
    /\ job_lifecycle_logs' = << >>
    /\ system_logs' = << >>
    /\ UNCHANGED <<jobs, nextId, now, ticks>>
    /\ UNCHANGED <<ingestVars, scheduler, auxVars>>
    /\ IF Application(u, j) \in applications
       THEN /\ applications' = applications \ {Application(u, j)}
            /\ lastOp' = Op("delete_application", j, u, "Application deleted", 0)
       ELSE /\ lastOp' = Op("delete_application", j, u, "Application not found", 0)
            /\ UNCHANGED applications

----------------------------------------------------------------------------
(* The clock.                                                              *)

Tick ==
    /\ ticks < MaxTicks
    /\ ticks' = ticks + 1
    /\ now' = now + TickStep(ticks + 1)
    /\ job_lifecycle_logs' = << >>
    /\ system_logs' = << >>
    /\ lastOp' = Op("tick", NoJob, NoUser, "ok", 0)
    /\ UNCHANGED <<jobs, nextId, applications, requests>>
    /\ UNCHANGED <<ingestVars, scheduler, auxVars>>

----------------------------------------------------------------------------
(* Specification of the lifecycle.                                         *)

\* BaseScraper.__init__, at second 0 of the adapter's clock; no fetch is under way.
BaseScraper ==
    [request_count |-> 0, last_request_time |-> 0, clock |-> 0,
     pc |-> "idle", attempt |-> 0, outcomes |-> << >>, slept |-> << >>,
     result |-> Null,
     waited |-> 0, issued |-> 0, recent |-> << >>]

\* calculate_match_score has not been called.
NoMatch == [called |-> FALSE]

\* JobLifecycleScheduler.__init__: a stopped AsyncIOScheduler holding no job.
JobLifecycleScheduler == [is_running |-> FALSE, state |-> "stopped", jobs |-> << >>]

NoTasks == << >>

\* No request is being handled and no run is under way.
NoCoroutines == << >>
NoRun == [finished |-> FALSE]

Init ==
    /\ jobs = << >>
    /\ nextId = 1
    /\ applications = {}
    /\ job_lifecycle_logs = << >>
    /\ system_logs = << >>
    /\ now = 0
    /\ ticks = 0
    /\ requests = 0
    /\ lastOp = Op("init", NoJob, NoUser, "ok", 0)
    /\ upstream = << >>
    /\ tasks = NoTasks
    /\ run = NoRun
    /\ lastRun = NoRun
    /\ runs = 0
    /\ scheduler = JobLifecycleScheduler
    /\ scraper = BaseScraper
    /\ matcher = NoMatch
    /\ inflight = NoCoroutines

Next ==
    \/ create_job
    \/ \E j \in JobIds : delete_job(j)
    \/ \E j \in JobIds, u \in Users : save_job(j, u)
    \/ \E j \in JobIds, u \in Users : unsave_job(j, u)
    \/ \E j \in JobIds, u \in Users, hasResume \in BOOLEAN : apply_to_job(j, u, hasResume)
    \/ \E j \in JobIds, u \in Users : mark_external_application(j, u)
    \/ \E j \in JobIds, u \in Users : delete_application(j, u)
    \/ cleanup_expired_jobs
    \/ sync_job_counts
    \/ Tick

Spec == Init /\ [][Next]_vars

----------------------------------------------------------------------------
(* Source adapters: scrapers/base_scraper.py and its subclasses.           *)
(*                                                                         *)
(* Two of the registered adapters stand for the two kinds there are:       *)
(* RemoteOK fetches a live source and swallows a failed fetch; GitHub      *)
(* serves a fixed sample list from a body that no try block guards.  A     *)
(* posting is identified by its job_url.                                   *)

Adapters == {"RemoteOK", "GitHub"}
Limits == {1, 2}
Feeds == {<<"r1", "r2">>}

\* github_scraper.py: both sample postings carry the same url.
GitHubSample == <<"g", "g">>

\* What a source does when asked: RemoteOK answers with a feed or fails,
\* GitHub's scrape_jobs returns its sample or raises.
SourceStates(a) ==
    IF a = "RemoteOK"
    THEN {[fetch |-> "ok", feed |-> f] : f \in Feeds}
            \cup {[fetch |-> "fail", feed |-> << >>]}
    ELSE {[fetch |-> "ok", feed |-> GitHubSample],
          [fetch |-> "raise", feed |-> GitHubSample]}

Upstreams == {up \in [Adapters -> UNION {SourceStates(a) : a \in Adapters}] :
                 \A a \in Adapters : up[a] \in SourceStates(a)}

\* s[:n]
Take(s, n) == SubSeq(s, 1, IF Len(s) < n THEN Len(s) ELSE n)

\* scrape_jobs of adapter a: the urls of the postings it returns, or a raise.
scrape_jobs(a, src, limit) ==
    IF a = "RemoteOK"
    THEN [raised |-> FALSE,
          urls |-> IF src.fetch = "ok" THEN Take(src.feed, limit) ELSE << >>]
    ELSE [raised |-> src.fetch = "raise",
          urls |-> IF src.fetch = "raise" THEN << >> ELSE Take(GitHubSample, limit)]

\* Variant: no posting is ever recognised as stored.
check_duplicate_Never(job_url, store) == FALSE

\* check_duplicate: db.jobs.find_one({"job_url": job_url}) is not None.
check_duplicate(job_url, store) ==
    \E j \in DOMAIN store : store[j].job_url = Some(job_url)

\* process_job when the model answers: the answer's fields are merged over the
\* posting; job_url is not among the fields the prompt asks for.
process_job(job) == [job EXCEPT !.summary = Some("ai")]

\* What generate_content does: it answers with JSON, answers with text that
\* holds no JSON object, or raises.
Replies == {"json", "text", "error"}

\* Variant: whatever the model did, the posting is stored as if it had answered.
Enrichment_AlwaysMerged(job, reply) == process_job(job)

\* The posting scrape_and_store goes on with after its enrichment step:
\* process_job falls back to the posting it was given when generate_content
\* raises or its answer does not parse.
Enrichment(job, reply) == IF reply = "json" THEN process_job(job) ELSE job

\* The outcome dict scrape_and_store returns.
Outcome(scraped, stored, duplicates, errors) ==
    [scraped |-> scraped, stored |-> stored, duplicates |-> duplicates,
     errors |-> errors]

Task(pc, got, queue, outcome) == [pc |-> pc, got |-> got, queue |-> queue, outcome |-> outcome]

\* Before scrape_jobs has returned there is nothing it returned.
Nothing == [raised |-> FALSE, urls |-> << >>]

\* scrape_and_store's outermost except branch.
RaisedOutcome == Outcome(0, 0, 0, 1)

\* What gather hands back for a coroutine that raised.
Exception == [exception |-> "error"]

IsException(result) == "exception" \in DOMAIN result

\* scrape_and_store up to its first store call: scrape_jobs, then either an
\* early return or the loop over the postings.  The statement before the try
\* block is the one place an exception can leave the coroutine from (entered
\* is FALSE when it does).
TaskScrape(a, entered) ==
    /\ tasks # NoTasks
    /\ ~Blocked
    /\ tasks[a].pc = "scrape"
    /\ LET got == scrape_jobs(a, upstream[a], run.limit)
       IN  tasks' = [tasks EXCEPT ![a] =
              IF ~entered THEN Task("raised", Nothing, << >>, Exception)
              ELSE IF got.raised THEN Task("done", got, << >>, RaisedOutcome)
              ELSE IF got.urls = << >> THEN Task("done", got, << >>, Outcome(0, 0, 0, 0))
              ELSE Task("check", got, got.urls, Outcome(Len(got.urls), 0, 0, 0))]
    /\ job_lifecycle_logs' = << >>
    /\ system_logs' = << >>
    /\ lastOp' = Op("scrape_jobs", NoJob, a, "ok", 0)
    /\ UNCHANGED <<jobs, nextId, applications, now, ticks, requests, scheduler, auxVars>>
    /\ UNCHANGED <<upstream, run, lastRun, runs>>

\* The loop's check_duplicate for the posting at the head of the queue.
TaskCheck(a) ==
    /\ tasks # NoTasks
    /\ ~Blocked
    /\ tasks[a].pc = "check"
    /\ LET t == tasks[a]
           rest == Tail(t.queue)
       IN  tasks' = [tasks EXCEPT ![a] =
              IF check_duplicate(Head(t.queue), jobs)
              THEN Task(IF rest = << >> THEN "done" ELSE "check", t.got, rest,
                        [t.outcome EXCEPT !.duplicates = @ + 1])
              ELSE Task("insert", t.got, t.queue, t.outcome)]
    /\ job_lifecycle_logs' = << >>
    /\ system_logs' = << >>
    /\ lastOp' = Op("check_duplicate", NoJob, a, "ok", 0)
    /\ UNCHANGED <<jobs, nextId, applications, now, ticks, requests, scheduler, auxVars>>
    /\ UNCHANGED <<upstream, run, lastRun, runs>>

\* The loop's enrichment and insert_one for the posting at the head of the queue.
TaskInsert(a, reply) ==
    /\ tasks # NoTasks
    /\ ~Blocked
    /\ tasks[a].pc = "insert"
    /\ nextId <= MaxIds
    /\ LET t == tasks[a]
           rest == Tail(t.queue)
           job == normalize_job_data(Head(t.queue), now)
       IN  /\ jobs' = With(jobs, nextId, Enrichment(job, reply))
           /\ tasks' = [tasks EXCEPT ![a] =
                 Task(IF rest = << >> THEN "done" ELSE "check", t.got, rest,
                      [t.outcome EXCEPT !.stored = @ + 1])]
    /\ nextId' = nextId + 1
    /\ job_lifecycle_logs' = << >>
    /\ system_logs' = << >>
    /\ lastOp' = Op("insert_one", nextId, a, reply, 0)
    /\ UNCHANGED <<applications, now, ticks, requests, scheduler, auxVars>>
    /\ UNCHANGED <<upstream, run, lastRun, runs>>

\* The loop's enrichment when generate_content does not return: nothing in
\* process_job or scrape_and_store bounds the call, so the coroutine stays in it.
TaskEnrichHangs(a) ==
    /\ tasks # NoTasks
    /\ ~Blocked
    /\ tasks[a].pc = "insert"
    /\ tasks' = [tasks EXCEPT ![a].pc = "enrich"]
    /\ job_lifecycle_logs' = << >>
    /\ system_logs' = << >>
    /\ lastOp' = Op("process_job", NoJob, a, "no answer", 0)
    /\ UNCHANGED <<jobs, nextId, applications, now, ticks, requests, scheduler, auxVars>>
    /\ UNCHANGED <<upstream, run, lastRun, runs>>

----------------------------------------------------------------------------
(* Orchestrator: services/scraping_orchestrator.py.                        *)

\* Variant: a coroutine that raised adds nothing to any total.
Counted_DictOnly(result, field) ==
    IF IsException(result) THEN 0 ELSE result[field]

\* What one gathered result adds to the total of a field: an exception adds 1
\* to the errors and nothing else, a dict adds its count.
Counted(result, field) ==
    IF IsException(result)
    THEN IF field = "errors" THEN 1 ELSE 0
    ELSE result[field]

RECURSIVE SumOver(_, _, _)
\* the for loop over the results, for the adapters in S
SumOver(results, field, S) ==
    IF S = {} THEN 0
    ELSE LET a == CHOOSE x \in S : TRUE
         IN  Counted(results[a], field) + SumOver(results, field, S \ {a})

\* scrape_all_platforms' aggregation of the gathered outcomes.
Totals(results) ==
    [total_scraped    |-> SumOver(results, "scraped", DOMAIN results),
     total_stored     |-> SumOver(results, "stored", DOMAIN results),
     total_duplicates |-> SumOver(results, "duplicates", DOMAIN results),
     total_errors     |-> SumOver(results, "errors", DOMAIN results)]

\* Variant: the run is not logged.
log_scraping_event_None(totals) == << >>

\* _log_scraping_event: one insert into db.system_logs.
log_scraping_event(totals) ==
    <<[event |-> "job_scraping", totals |-> totals,
       status |-> IF totals.total_errors = 0 THEN "success" ELSE "partial_success"]>>

\* scrape_all_platforms is called: one scrape_and_store task per adapter.
StartRun(limit, up) ==
    /\ tasks = NoTasks
    /\ runs < MaxRuns
    /\ runs' = runs + 1
    /\ upstream' = up
    /\ run' = [finished |-> FALSE, limit |-> limit, before |-> jobs, firstId |-> nextId]
    /\ tasks' = [a \in Adapters |-> Task("scrape", Nothing, << >>, Outcome(0, 0, 0, 0))]
    /\ job_lifecycle_logs' = << >>
    /\ system_logs' = << >>
    /\ lastOp' = Op("scrape_start", NoJob, NoUser, "ok", limit)
    /\ UNCHANGED <<jobs, nextId, applications, now, ticks, requests, scheduler, auxVars>>
    /\ UNCHANGED lastRun

\* gather has returned: the outcomes are summed, logged and returned.
\* _log_scraping_event swallows a failure of its insert (logged is FALSE when
\* that happens).
FinishRun(logged) ==
    /\ tasks # NoTasks
    /\ \A a \in Adapters : tasks[a].pc \in {"done", "raised"}
    /\ LET results == [a \in Adapters |-> tasks[a].outcome]
           totals == Totals(results)
       IN  /\ lastRun' = [finished |-> TRUE,
                          got |-> [a \in Adapters |-> tasks[a].got],
                          before |-> run.before,
                          firstId |-> run.firstId,
                          results |-> results,
                          platforms |-> [a \in {x \in Adapters : ~IsException(results[x])}
                                            |-> results[a]],
                          totals |-> totals,
                          logged |-> logged,
                          \* the adapters returned what they returned in the
                          \* previous run, and no posting that was in the store
                          \* when that run began, or was inserted since, has
                          \* been deleted
                          repeat |-> /\ lastRun.finished
                                     /\ lastRun.got = [a \in Adapters |-> tasks[a].got]
                                     /\ (DOMAIN lastRun.before) \cup (lastRun.firstId .. nextId - 1)
                                            \subseteq DOMAIN jobs]
           /\ system_logs' = IF logged THEN log_scraping_event(totals) ELSE << >>
           /\ lastOp' = Op("scrape_all", NoJob, NoUser, "success", totals.total_stored)
    /\ tasks' = NoTasks
    /\ run' = NoRun
    /\ job_lifecycle_logs' = << >>
    /\ UNCHANGED <<jobs, nextId, applications, now, ticks, requests, upstream, runs, scheduler, auxVars>>

StoredIds == 1 .. MaxIds

NextIngest ==
    \/ \E limit \in Limits, up \in Upstreams : StartRun(limit, up)
    \/ \E a \in Adapters, entered \in BOOLEAN : TaskScrape(a, entered)
    \/ \E a \in Adapters : TaskCheck(a)
    \/ \E a \in Adapters, reply \in Replies : TaskInsert(a, reply)
    \/ \E a \in Adapters : TaskEnrichHangs(a)
    \/ \E logged \in BOOLEAN : FinishRun(logged)
    \/ \E j \in StoredIds : delete_job(j)

SpecIngest == Init /\ [][NextIngest]_vars

----------------------------------------------------------------------------
(* Store failures in the lifecycle service: services/job_lifecycle.py.     *)

\* cleanup_expired_jobs when delete_many raises: the except branch logs a
\* failed cleanup event and returns 0.  log_cleanup_event swallows a failure
\* of its own insert (logged is FALSE when that happens).
cleanup_expired_jobs_failed(logged) ==
    /\ system_logs' = IF logged THEN log_cleanup_event(0, "failed") ELSE << >>
    /\ job_lifecycle_logs' = << >>
    /\ lastOp' = Op("cleanup", NoJob, NoUser, "failed", 0)
    /\ UNCHANGED <<jobs, nextId, applications, now, ticks, requests>>
    /\ UNCHANGED <<ingestVars, scheduler, auxVars>>

\* sync_job_counts when the cursor or an update_one raises after the documents
\* in done were rewritten: the except branch prints and returns 0.
sync_job_counts_failed(done) ==
    /\ jobs' = [k \in DOMAIN jobs |-> IF k \in done THEN SyncedCounts(jobs[k]) ELSE jobs[k]]
    /\ job_lifecycle_logs' = << >>
    /\ system_logs' = << >>
    /\ lastOp' = Op("sync", NoJob, NoUser, "failed", 0)
    /\ UNCHANGED <<nextId, applications, now, ticks, requests>>
    /\ UNCHANGED <<ingestVars, scheduler, auxVars>>

\* One invocation of the sweep, whatever the store does.
Sweep == cleanup_expired_jobs \/ \E logged \in BOOLEAN : cleanup_expired_jobs_failed(logged)

\* One invocation of the count sync, whatever the store does.
Sync == sync_job_counts \/ \E done \in SUBSET DOMAIN jobs : sync_job_counts_failed(done)

----------------------------------------------------------------------------
(* Scheduler: services/job_scheduler.py.                                   *)
(*                                                                         *)
(* The AsyncIOScheduler behind the wrapper is described by what the calls  *)
(* made on it do: add_job with replace_existing puts the job in place of   *)
(* one with the same id, start and shutdown raise when the scheduler is    *)
(* already in the state asked for, and shutdown empties the in-memory job  *)
(* store.                                                                  *)

\* The ids start() registers, in its order.
ScheduledJobs == <<"job_cleanup", "job_sync">>

\* scheduler.add_job(..., id=id, replace_existing=True)
add_job(registry, id) == Append(SelectSeq(registry, LAMBDA x : x # id), id)

\* Variant: the guard of start() never finds the scheduler running.
AlreadyRunning_Never(s) == FALSE

\* if self._is_running
AlreadyRunning(s) == s.is_running

\* if not self._is_running
NotRunning(s) == ~s.is_running

\* JobLifecycleScheduler.start
start ==
    /\ IF AlreadyRunning(scheduler)
       THEN /\ UNCHANGED scheduler
            /\ lastOp' = Op("start", NoJob, NoUser, "already running", 0)
       ELSE LET registry == add_job(add_job(scheduler.jobs, ScheduledJobs[1]), ScheduledJobs[2])
            IN  IF scheduler.state = "running"
                THEN \* self.scheduler.start() raises SchedulerAlreadyRunningError
                     /\ scheduler' = [scheduler EXCEPT !.jobs = registry]
                     /\ lastOp' = Op("start", NoJob, NoUser, "raised", 0)
                ELSE /\ scheduler' = [is_running |-> TRUE, state |-> "running",
                                      jobs |-> registry]
                     /\ lastOp' = Op("start", NoJob, NoUser, "started", 0)
    /\ job_lifecycle_logs' = << >>
    /\ system_logs' = << >>
    /\ UNCHANGED <<jobs, nextId, applications, now, ticks, requests>>
    /\ UNCHANGED <<ingestVars, auxVars>>

\* JobLifecycleScheduler.stop
stop ==
    /\ IF NotRunning(scheduler)
       THEN /\ UNCHANGED scheduler
            /\ lastOp' = Op("stop", NoJob, NoUser, "not running", 0)
       ELSE IF scheduler.state = "stopped"
            THEN \* self.scheduler.shutdown() raises SchedulerNotRunningError
                 /\ UNCHANGED scheduler
                 /\ lastOp' = Op("stop", NoJob, NoUser, "raised", 0)
            ELSE /\ scheduler' = [is_running |-> FALSE, state |-> "stopped", jobs |-> << >>]
                 /\ lastOp' = Op("stop", NoJob, NoUser, "stopped", 0)
    /\ job_lifecycle_logs' = << >>
    /\ system_logs' = << >>
    /\ UNCHANGED <<jobs, nextId, applications, now, ticks, requests>>
    /\ UNCHANGED <<ingestVars, auxVars>>

\* The running scheduler fires one of its jobs: the function registered
\* under the id is called.
RunJob(id) ==
    /\ scheduler.state = "running"
    /\ id \in Range(scheduler.jobs)
    /\ IF id = "job_cleanup" THEN Sweep ELSE Sync

\* JobLifecycleScheduler.trigger_cleanup_now
trigger_cleanup_now == Sweep

\* JobLifecycleScheduler.trigger_sync_now
trigger_sync_now == Sync

NextSched ==
    \/ start
    \/ stop
    \/ \E id \in Range(ScheduledJobs) : RunJob(id)
    \/ trigger_cleanup_now
    \/ trigger_sync_now
    \/ create_job
    \/ \E j \in JobIds, u \in Users : save_job(j, u)
    \/ \E j \in JobIds, u \in Users : unsave_job(j, u)
    \/ Tick

SpecSched == Init /\ [][NextSched]_vars

----------------------------------------------------------------------------
(* Requests of one adapter: BaseScraper.rate_limit and fetch_with_retry.   *)
(*                                                                         *)
(* scraper.clock is datetime.utcnow() in whole seconds.  scraper.issued    *)
(* and scraper.recent record what was sent: the number of requests since   *)
(* last_request_time was last set, and the times of the requests of the    *)
(* last 60 seconds; scraper.outcomes and scraper.slept record the attempts *)
(* of the fetch under way and the delays between them, scraper.waited the  *)
(* time the last rate_limit call slept.                                    *)

Window == 60
max_retries == 3
SecondsPerDay == 86400

\* timedelta.seconds
Seconds(delta) == delta % SecondsPerDay

\* Time that passes outside the adapter's own sleeps.
WaitSteps == {1, 59}

Outcomes == {"ok", "http_error", "error"}

\* Variant: the limiter counts and resets but never sleeps.
rate_limit_NoWait(s) ==
    LET count == s.request_count + 1
        reset == Seconds(s.clock - s.last_request_time) >= Window
    IN  [request_count |-> IF reset THEN 0 ELSE count,
         last_request_time |-> IF reset THEN s.clock ELSE s.last_request_time,
         clock |-> s.clock]

\* rate_limit: the counter, the time of the last reset and the clock when the
\* call returns.
rate_limit(s) ==
    LET count == s.request_count + 1
        reset == Seconds(s.clock - s.last_request_time) >= Window
        request_count == IF reset THEN 0 ELSE count
        last_request_time == IF reset THEN s.clock ELSE s.last_request_time
        wait_time == Window - Seconds(s.clock - last_request_time)
    IN  IF request_count >= MaxRequestsPerMinute /\ wait_time > 0
        THEN [request_count |-> 0,
              last_request_time |-> s.clock + wait_time,
              clock |-> s.clock + wait_time]
        ELSE [request_count |-> request_count,
              last_request_time |-> last_request_time,
              clock |-> s.clock]

\* The requests of the last Window seconds at time t.
Recent(times, t) == SelectSeq(times, LAMBDA x : t - x < Window)

RECURSIVE Power2(_)
\* 2 ** n
Power2(n) == IF n = 0 THEN 1 ELSE 2 * Power2(n - 1)

\* Variant: the same delay after every failed attempt.
Backoff_Constant(attempt) == 1

\* asyncio.sleep(2 ** attempt)
Backoff(attempt) == Power2(attempt)

scraperOnly == <<jobs, nextId, applications, job_lifecycle_logs, system_logs, now,
                 ticks, requests, lastOp, ingestVars, scheduler, matcher, inflight>>

\* fetch_with_retry is called.
FetchStart ==
    /\ scraper.pc \in {"idle", "done"}
    /\ scraper' = [scraper EXCEPT !.pc = "rate_limit", !.attempt = 0,
                                  !.outcomes = << >>, !.slept = << >>,
                                  !.result = Null]
    /\ UNCHANGED scraperOnly

\* await self.rate_limit(), and the request that follows it goes out.
RateLimit ==
    /\ scraper.pc = "rate_limit"
    /\ LET r == rate_limit(scraper)
       IN  /\ r.clock <= MaxClock
           /\ scraper' = [scraper EXCEPT
                 !.request_count = r.request_count,
                 !.last_request_time = r.last_request_time,
                 !.clock = r.clock,
                 !.pc = "get",
                 !.waited = r.clock - scraper.clock,
                 !.issued = (IF r.last_request_time # scraper.last_request_time
                             THEN 0 ELSE @) + 1,
                 !.recent = Recent(Append(@, r.clock), r.clock)]
    /\ UNCHANGED scraperOnly

\* client.get and raise_for_status: the response text is returned, or the
\* attempt failed and the loop sleeps and goes on, or gives up after the last.
Get(outcome) ==
    /\ scraper.pc = "get"
    /\ IF outcome = "ok"
       THEN scraper' = [scraper EXCEPT !.pc = "done", !.result = Some("text"),
                                       !.outcomes = Append(@, outcome)]
       ELSE IF scraper.attempt < max_retries - 1
            THEN LET delay == Backoff(scraper.attempt)
                 IN  /\ scraper.clock + delay <= MaxClock
                     /\ scraper' = [scraper EXCEPT
                           !.pc = "rate_limit",
                           !.attempt = @ + 1,
                           !.outcomes = Append(@, outcome),
                           !.slept = Append(@, delay),
                           !.clock = @ + delay,
                           !.recent = Recent(@, scraper.clock + delay)]
            ELSE scraper' = [scraper EXCEPT !.pc = "done", !.result = Null,
                                            !.outcomes = Append(@, outcome)]
    /\ UNCHANGED scraperOnly

\* Time passes.
Wait(d) ==
    /\ scraper.clock + d <= MaxClock
    /\ scraper' = [scraper EXCEPT !.clock = @ + d,
                                  !.recent = Recent(@, scraper.clock + d)]
    /\ UNCHANGED scraperOnly

NextFetch ==
    \/ FetchStart
    \/ RateLimit
    \/ \E outcome \in Outcomes : Get(outcome)
    \/ \E d \in WaitSteps : Wait(d)

SpecFetch == Init /\ [][NextFetch]_vars

----------------------------------------------------------------------------
(* Matching: services/job_matcher.py.                                      *)
(*                                                                         *)
(* An Optional value is Null or Some(v).  A sub-score whose value is a     *)
(* whole number is that number; the skills score and the overall score are *)
(* fractions [num, den] with den > 0, and a score rounded to one decimal   *)
(* is given in tenths.                                                     *)

\* WEIGHTS
WeightSkills == 40
WeightExperience == 25
WeightLocation == 15
WeightSalary == 10
WeightJobType == 5
WeightCulture == 5

\* d.get(key, default)
DictGet(d, key, default) == IF key \in DOMAIN d THEN d[key] ELSE default

The(x) == CHOOSE v \in x : TRUE

\* `not x` for an Optional[int]
Falsy(x) == x = Null \/ x = Some(0)

Abs(n) == IF n < 0 THEN 0 - n ELSE n

\* str.lower() on the skill names in use
Lower(skill) ==
    CASE skill = "Python" -> "python"
      [] skill = "AWS" -> "aws"
      [] skill = "Berlin" -> "berlin"
      [] OTHER -> skill

\* [x.lower() for x in skills]
LowerAll(skills) == [i \in DOMAIN skills |-> Lower(skills[i])]

\* The required skills found in the resume, in the order of the posting.
Matched(job_skills, resume_skills) ==
    SelectSeq(job_skills, LAMBDA x : Lower(x) \in Range(LowerAll(resume_skills)))

\* _get_missing_skills
get_missing_skills(job_skills, resume_skills) ==
    SelectSeq(job_skills, LAMBDA x : Lower(x) \notin Range(LowerAll(resume_skills)))

\* Variant: the unmatched skills are counted instead of the matched ones.
calculate_skills_match_Unmatched(job_skills, resume_skills) ==
    IF job_skills = << >> THEN [num |-> 100, den |-> 1]
    ELSE IF resume_skills = << >> THEN [num |-> 0, den |-> 1]
    ELSE [num |-> 100 * Len(get_missing_skills(job_skills, resume_skills)),
          den |-> Len(job_skills)]

\* _calculate_skills_match
calculate_skills_match(job_skills, resume_skills) ==
    IF job_skills = << >> THEN [num |-> 100, den |-> 1]
    ELSE IF resume_skills = << >> THEN [num |-> 0, den |-> 1]
    ELSE [num |-> 100 * Len(Matched(job_skills, resume_skills)),
          den |-> Len(job_skills)]

\* experience_levels
experience_levels == [Entry |-> 1, Mid |-> 2, Senior |-> 3, Lead |-> 4]

\* Variant: a resume without experience entries counts as Entry.
InferredLevel_EntryWhenEmpty(resume_experience) ==
    LET total_years == Len(resume_experience)
    IN  IF total_years >= 7 THEN 4
        ELSE IF total_years >= 5 THEN 3
        ELSE IF total_years >= 2 THEN 2
        ELSE 1

\* The level estimated from the resume; 2 is the default that stays when the
\* list of experience entries is empty.
InferredLevel(resume_experience) ==
    LET total_years == Len(resume_experience)
    IN  IF resume_experience = << >> THEN 2
        ELSE IF total_years >= 7 THEN 4
        ELSE IF total_years >= 5 THEN 3
        ELSE IF total_years >= 2 THEN 2
        ELSE 1

\* _calculate_experience_match
calculate_experience_match(job_experience, resume_experience, pref_experience) ==
    IF job_experience = "" THEN 100
    ELSE LET job_level == DictGet(experience_levels, job_experience, 2)
             user_level ==
                 IF pref_experience # Null /\ The(pref_experience) # ""
                       /\ The(pref_experience) \in DOMAIN experience_levels
                 THEN experience_levels[The(pref_experience)]
                 ELSE InferredLevel(resume_experience)
             level_diff == Abs(job_level - user_level)
         IN  IF level_diff = 0 THEN 100
             ELSE IF level_diff = 1 THEN 75
             ELSE IF level_diff = 2 THEN 50
             ELSE 25

\* Twice the midpoint of a salary band of which at least one end is set.
Midpoint2(salary_min, salary_max) ==
    IF ~Falsy(salary_min) /\ ~Falsy(salary_max)
    THEN The(salary_min) + The(salary_max)
    ELSE IF ~Falsy(salary_min) THEN 2 * The(salary_min)
    ELSE 2 * The(salary_max)

\* abs(diff) / base * 100 <= percent, for the doubled midpoints
WithinPercent(diff, base, percent) ==
    IF base > 0 THEN Abs(diff) * 100 <= percent * base ELSE TRUE

\* The midpoint the deviation is a percentage of: pref_salary.
SalaryBase(job_salary, pref_salary) == pref_salary

\* _calculate_salary_match
calculate_salary_match(job_salary_min, job_salary_max, pref_salary_min, pref_salary_max) ==
    IF Falsy(job_salary_min) /\ Falsy(job_salary_max) THEN 75
    ELSE IF Falsy(pref_salary_min) /\ Falsy(pref_salary_max) THEN 75
    ELSE LET job_salary == Midpoint2(job_salary_min, job_salary_max)
             pref_salary == Midpoint2(pref_salary_min, pref_salary_max)
             base == SalaryBase(job_salary, pref_salary)
             diff == job_salary - pref_salary
         IN  IF pref_salary = 0 THEN 75
             ELSE IF WithinPercent(diff, base, 10) THEN 100
             ELSE IF WithinPercent(diff, base, 20) THEN 85
             ELSE IF WithinPercent(diff, base, 30) THEN 70
             ELSE IF WithinPercent(diff, base, 50) THEN 50
             ELSE 25

\* a in b for the place names in use, none of which is part of another
Substring(a, b) == a = "" \/ a = b

\* _calculate_location_match
calculate_location_match(job_location, job_remote, pref_locations, pref_remote) ==
    IF job_remote = "Remote"
    THEN IF pref_remote \in {"Remote", "Any"} THEN 100
         ELSE IF pref_remote = "Hybrid" THEN 75 ELSE 50
    ELSE IF job_remote = "Hybrid"
    THEN IF pref_remote \in {"Hybrid", "Any"} THEN 100
         ELSE IF pref_remote = "Remote" THEN 75 ELSE 85
    ELSE IF pref_remote = "Remote" THEN 25
    ELSE IF pref_locations = << >> THEN 75
    ELSE IF \E i \in DOMAIN pref_locations :
               \/ Substring(Lower(pref_locations[i]), Lower(job_location))
               \/ Substring(Lower(job_location), Lower(pref_locations[i]))
         THEN 100
         ELSE 50

\* _calculate_job_type_match
calculate_job_type_match(job_type, pref_job_types) ==
    IF pref_job_types = << >> THEN 100
    ELSE IF job_type \in Range(pref_job_types) THEN 100
    ELSE IF job_type = "Full-time" /\ "Part-time" \in Range(pref_job_types) THEN 50
    ELSE IF job_type = "Part-time" /\ "Full-time" \in Range(pref_job_types) THEN 50
    ELSE 25

\* _calculate_culture_match
calculate_culture_match(job_category, pref_categories) ==
    IF pref_categories = << >> THEN 75
    ELSE IF job_category \in Range(pref_categories) THEN 100
    ELSE 50

\* round(num / den, 1) in tenths: to the nearest tenth, a tie to the even one
RoundTenths(num, den) ==
    LET q == (10 * num) \div den
        twice == 2 * ((10 * num) % den)
    IN  IF twice < den THEN q
        ELSE IF twice > den THEN q + 1
        ELSE IF q % 2 = 0 THEN q ELSE q + 1

\* JobMatcher.calculate_match_score
calculate_match_score(job, user_resume, user_preferences) ==
    LET job_skills == DictGet(job, "skills_required", << >>)
        preferences == IF user_preferences = Null THEN << >> ELSE The(user_preferences)
        resume_skills == DictGet(user_resume, "skills", << >>)
        skills_score == calculate_skills_match(job_skills, resume_skills)
        experience_score == calculate_experience_match(
            DictGet(job, "experience_level", ""),
            DictGet(user_resume, "experience", << >>),
            DictGet(preferences, "experience_level", Null))
        location_score == calculate_location_match(
            DictGet(job, "location", ""),
            DictGet(job, "remote_type", ""),
            DictGet(preferences, "preferred_locations", << >>),
            DictGet(preferences, "remote_preference", "Any"))
        salary_score == calculate_salary_match(
            DictGet(job, "salary_min", Null),
            DictGet(job, "salary_max", Null),
            DictGet(preferences, "salary_min", Null),
            DictGet(preferences, "salary_max", Null))
        job_type_score == calculate_job_type_match(
            DictGet(job, "job_type", "Full-time"),
            DictGet(preferences, "job_types", <<"Full-time">>))
        culture_score == calculate_culture_match(
            DictGet(job, "category", ""),
            DictGet(preferences, "job_categories", << >>))
        rest == experience_score * WeightExperience + location_score * WeightLocation
                  + salary_score * WeightSalary + job_type_score * WeightJobType
                  + culture_score * WeightCulture
        overall == [num |-> skills_score.num * WeightSkills + skills_score.den * rest,
                    den |-> 100 * skills_score.den]
    IN  [overall |-> overall,
         overall_score |-> RoundTenths(overall.num, overall.den),
         criterion_scores |->
            [skills |-> RoundTenths(skills_score.num, skills_score.den),
             experience |-> 10 * experience_score,
             location |-> 10 * location_score,
             salary |-> 10 * salary_score,
             job_type |-> 10 * job_type_score,
             culture |-> 10 * culture_score],
         missing_skills |-> get_missing_skills(job_skills, resume_skills),
         matched_skills |-> Matched(job_skills, resume_skills)]

\* calculate_job_match when the user has no resume
NoResumeMatch(job) ==
    [overall |-> [num |-> 0, den |-> 1],
     overall_score |-> 0,
     criterion_scores |-> << >>,
     missing_skills |-> DictGet(job, "skills_required", << >>),
     matched_skills |-> << >>]

----------------------------------------------------------------------------
(* The inputs the matcher is run on.                                       *)

\* A posting as normalize_job_data builds it.
NormalizedPosting(skills, level, band) ==
    [location |-> "Berlin", remote_type |-> "On-site", job_type |-> "Full-time",
     salary_min |-> band[1], salary_max |-> band[2],
     required_skills |-> skills, experience_level |-> level, category |-> "Backend"]

\* A posting as create_job builds it.
CreatedPosting(skills) ==
    [location |-> "Berlin", job_type |-> "Full-time", required_skills |-> skills]

\* A posting with the fields of models.Job.
DeclaredPosting(skills, level, band) ==
    [location |-> "Berlin", remote_type |-> "On-site", job_type |-> "Full-time",
     salary_min |-> band[1], salary_max |-> band[2],
     skills_required |-> skills, experience_level |-> level, category |-> "Backend"]

RequiredSkillLists == {<< >>, <<"Python">>, <<"Python", "AWS">>, <<"Python", "AWS", "docker">>}
ResumeSkillLists ==
    {<< >>, <<"python">>, <<"python", "docker">>, <<"python", "docker", "aws">>, <<"java">>}
Levels == {"", "Entry", "Mid", "Senior", "Lead", "Principal"}
PreferredLevels == {Null, Some(""), Some("Entry"), Some("Lead"), Some("Junior")}

JobBands ==
    {<<Null, Null>>, <<Some(0), Null>>, <<Some(100000), Some(120000)>>,
     <<Some(90), Null>>, <<Null, Some(120)>>, <<Some(219), Some(222)>>}
       \cup {<<Some(v), Some(v)>> : v \in {110, 111, 120, 121, 130, 131, 150, 151}}
PreferenceBands ==
    {<<Null, Null>>, <<Some(0), Some(0)>>, <<Some(150000), Some(150000)>>,
     <<Some(100), Some(100)>>, <<Some(100), Null>>, <<Null, Some(100)>>,
     <<Some(99), Some(102)>>}

\* n experience entries
Entries(n) == [i \in 1 .. n |-> "position"]

Postings ==
    {NormalizedPosting(k, l, b) : k \in RequiredSkillLists, l \in {"", "Senior"},
                                  b \in {<<Null, Null>>, <<Some(100000), Some(120000)>>}}
      \cup {CreatedPosting(k) : k \in RequiredSkillLists}
      \cup {DeclaredPosting(k, l, b) : k \in RequiredSkillLists, l \in {"", "Senior"},
                                       b \in {<<Null, Null>>, <<Some(100000), Some(120000)>>}}

Resumes == {[skills |-> k, experience |-> Entries(n)] : k \in ResumeSkillLists, n \in {0, 5}}

Preferences ==
    {Null,
     Some([salary_min |-> Some(150000), salary_max |-> Some(150000),
           experience_level |-> Some("Lead"), remote_preference |-> "Any",
           preferred_locations |-> <<"berlin">>, job_types |-> <<"Part-time">>,
           job_categories |-> <<"Backend">>])}

matcherOnly == <<jobs, nextId, applications, job_lifecycle_logs, system_logs, now,
                 ticks, requests, lastOp, ingestVars, scheduler, scraper, inflight>>

\* calculate_job_match for a posting, the resume found for the user (Null
\* when there is none) and the preferences found.
calculate_job_match(job, resume, preferences) ==
    /\ matcher' = [called |-> TRUE, fn |-> "match", job |-> job, resume |-> resume,
                   preferences |-> preferences,
                   result |-> IF resume = Null THEN NoResumeMatch(job)
                              ELSE calculate_match_score(job, The(resume), preferences)]
    /\ UNCHANGED matcherOnly

\* One call of _calculate_salary_match.
SalaryMatch(job_band, pref_band) ==
    /\ matcher' = [called |-> TRUE, fn |-> "salary", job_band |-> job_band,
                   pref_band |-> pref_band,
                   result |-> calculate_salary_match(job_band[1], job_band[2],
                                                     pref_band[1], pref_band[2])]
    /\ UNCHANGED matcherOnly

\* One call of _calculate_experience_match.
ExperienceMatch(job_experience, n, pref_experience) ==
    /\ matcher' = [called |-> TRUE, fn |-> "experience", job_experience |-> job_experience,
                   entries |-> n, pref_experience |-> pref_experience,
                   result |-> calculate_experience_match(job_experience, Entries(n),
                                                         pref_experience)]
    /\ UNCHANGED matcherOnly

NextMatch ==
    \/ \E job \in Postings, resume \in {Null} \cup {Some(r) : r \in Resumes},
          preferences \in Preferences : calculate_job_match(job, resume, preferences)
    \/ \E job_band \in JobBands, pref_band \in PreferenceBands : SalaryMatch(job_band, pref_band)
    \/ \E l \in Levels, n \in 0 .. MaxEntries, p \in PreferredLevels : ExperienceMatch(l, n, p)

SpecMatch == Init /\ [][NextMatch]_vars

----------------------------------------------------------------------------
(* Overlapping ingestion runs.                                             *)
(*                                                                         *)
(* main.py's startup_event starts scrape_all_platforms as a background     *)
(* task and routers/admin.py's trigger_scrape awaits it for a request;     *)
(* nothing keeps one from starting while the other is under way.  Of each  *)
(* run the task of one adapter is followed, one store call at a time.      *)
(* db.py's init_db, which would create the unique index on job_url, is     *)
(* called from nowhere, so insert_one takes a url that is already stored.  *)

Callers == {"startup", "manual"}

\* What the source serves to either run.
OverlapFeed ==
    scrape_jobs("RemoteOK", [fetch |-> "ok", feed |-> CHOOSE f \in Feeds : TRUE], 2).urls

overlapOnly == <<applications, now, ticks, requests, upstream, tasks, run, lastRun,
                 scheduler, scraper, matcher>>

\* scrape_all_platforms is entered for caller c and the adapter's scrape_jobs
\* has returned.
RunStarts(c) ==
    /\ c \notin DOMAIN inflight
    /\ runs < MaxRuns
    /\ runs' = runs + 1
    /\ inflight' = With(inflight, c,
                        Task("check", Nothing, OverlapFeed, Outcome(Len(OverlapFeed), 0, 0, 0)))
    /\ job_lifecycle_logs' = << >>
    /\ system_logs' = << >>
    /\ lastOp' = Op("scrape_start", NoJob, c, "ok", 0)
    /\ UNCHANGED <<jobs, nextId>>
    /\ UNCHANGED overlapOnly

\* main.py startup_event: asyncio.create_task(scrape_jobs_background())
startup_event == RunStarts("startup")

\* admin.py trigger_scrape: await orchestrator.scrape_all_platforms(...)
trigger_scrape == RunStarts("manual")

\* scrape_and_store's check_duplicate for the posting at the head of the queue.
OverlapCheck(c) ==
    /\ c \in DOMAIN inflight
    /\ inflight[c].pc = "check"
    /\ LET t == inflight[c]
           rest == Tail(t.queue)
       IN  inflight' = [inflight EXCEPT ![c] =
              IF check_duplicate(Head(t.queue), jobs)
              THEN Task(IF rest = << >> THEN "done" ELSE "check", t.got, rest,
                        [t.outcome EXCEPT !.duplicates = @ + 1])
              ELSE Task("insert", t.got, t.queue, t.outcome)]
    /\ job_lifecycle_logs' = << >>
    /\ system_logs' = << >>
    /\ lastOp' = Op("check_duplicate", NoJob, c, "ok", 0)
    /\ UNCHANGED <<jobs, nextId, runs>>
    /\ UNCHANGED overlapOnly

\* scrape_and_store's enrichment and insert_one for the posting at the head
\* of the queue.
OverlapInsert(c, reply) ==
    /\ c \in DOMAIN inflight
    /\ inflight[c].pc = "insert"
    /\ nextId <= MaxIds
    /\ LET t == inflight[c]
           rest == Tail(t.queue)
           job == normalize_job_data(Head(t.queue), now)
       IN  /\ jobs' = With(jobs, nextId, Enrichment(job, reply))
           /\ inflight' = [inflight EXCEPT ![c] =
                 Task(IF rest = << >> THEN "done" ELSE "check", t.got, rest,
                      [t.outcome EXCEPT !.stored = @ + 1])]
    /\ nextId' = nextId + 1
    /\ job_lifecycle_logs' = << >>
    /\ system_logs' = << >>
    /\ lastOp' = Op("insert_one", nextId, c, reply, 0)
    /\ UNCHANGED runs
    /\ UNCHANGED overlapOnly

\* The run of caller c returns its summary.
OverlapReturn(c) ==
    /\ c \in DOMAIN inflight
    /\ inflight[c].pc = "done"
    /\ inflight' = Without(inflight, c)
    /\ job_lifecycle_logs' = << >>
    /\ system_logs' = log_scraping_event(Totals(<<inflight[c].outcome>>))
    /\ lastOp' = Op("scrape_return", NoJob, c, "success", inflight[c].outcome.stored)
    /\ UNCHANGED <<jobs, nextId, runs>>
    /\ UNCHANGED overlapOnly

NextOverlap ==
    \/ startup_event
    \/ trigger_scrape
    \/ \E c \in Callers : OverlapCheck(c)
    \/ \E c \in Callers, reply \in Replies : OverlapInsert(c, reply)
    \/ \E c \in Callers : OverlapReturn(c)
    \/ \E j \in StoredIds : delete_job(j)

SpecOverlap == Init /\ [][NextOverlap]_vars

----------------------------------------------------------------------------
(* Overlapping request handlers and lifecycle passes.                      *)
(*                                                                         *)
(* Every await of a store call is a point where the event loop may run     *)
(* another coroutine.  save_job, unsave_job, apply_to_job and               *)
(* sync_job_counts are followed here one store call at a time; a single    *)
(* update_one or delete_many is atomic in the store.  The sweep is the one *)
(* delete_many of cleanup_expired_jobs, whoever started it: the scheduler, *)
(* the admin trigger, or the background task of list_jobs.                 *)

HandlerIds == {"h1", "h2"}
SyncId == "sync"

\* The posting the overlapping requests are about.
Contended == {1}

\* A request that arrives is handled under the first id that is free.
Free(h) == /\ h \notin DOMAIN inflight
           /\ h = "h2" => "h1" \in DOMAIN inflight

\* A coroutine between two store calls: what it is handling, the store call
\* it makes next, and what it has read so far.
Coroutine(op, job, user, pc, todo, seen) ==
    [op |-> op, job |-> job, user |-> user, pc |-> pc, todo |-> todo, seen |-> seen]

concurrentOnly == <<nextId, now, ticks, ingestVars, scheduler, scraper, matcher>>

\* save_job up to its update_one: find_one, 404 when there is no posting,
\* "Already saved" when the user is in the saved_by that was read.
SaveFind(h, j, u) ==
    /\ Free(h)
    /\ requests < MaxRequests
    /\ requests' = requests + 1
    /\ job_lifecycle_logs' = << >>
    /\ system_logs' = << >>
    /\ UNCHANGED <<jobs, applications>>
    /\ UNCHANGED concurrentOnly
    /\ IF j \notin DOMAIN jobs
       THEN /\ lastOp' = Op("save", j, u, "Job not found", 0)
            /\ UNCHANGED inflight
       ELSE IF AlreadySaved(jobs[j], u)
       THEN /\ lastOp' = Op("save", j, u, "Already saved", 0)
            /\ UNCHANGED inflight
       ELSE /\ lastOp' = Op("find_one", j, u, "ok", 0)
            /\ inflight' = With(inflight, h, Coroutine("save", j, u, "update", << >>, Null))

\* save_job's update_one, which changes nothing when the posting is gone,
\* and its log_job_event.
SaveWrite(h) ==
    /\ h \in DOMAIN inflight
    /\ inflight[h].op = "save"
    /\ inflight[h].pc = "update"
    /\ LET j == inflight[h].job
           u == inflight[h].user
       IN  /\ jobs' = IF j \in DOMAIN jobs
                      THEN [jobs EXCEPT ![j] = SaveUpdate(@, u)]
                      ELSE jobs
           /\ job_lifecycle_logs' = log_job_event(j, "saved", u)
           /\ lastOp' = Op("update_one", j, u, "ok", 0)
    /\ inflight' = [inflight EXCEPT ![h].pc = "unmark"]
    /\ system_logs' = << >>
    /\ UNCHANGED <<applications, requests>>
    /\ UNCHANGED concurrentOnly

\* save_job's remove_deletion_mark and its return.
SaveReturn(h) ==
    /\ h \in DOMAIN inflight
    /\ inflight[h].op = "save"
    /\ inflight[h].pc = "unmark"
    /\ LET j == inflight[h].job
           u == inflight[h].user
       IN  /\ jobs' = IF j \in DOMAIN jobs
                      THEN [jobs EXCEPT ![j] = remove_deletion_mark(@)]
                      ELSE jobs
           /\ lastOp' = Op("save", j, u, "Job saved successfully", 0)
    /\ inflight' = Without(inflight, h)
    /\ job_lifecycle_logs' = << >>
    /\ system_logs' = << >>
    /\ UNCHANGED <<applications, requests>>
    /\ UNCHANGED concurrentOnly

\* unsave_job's update_one and its log_job_event.
UnsaveWrite(h, j, u) ==
    /\ Free(h)
    /\ requests < MaxRequests
    /\ requests' = requests + 1
    /\ jobs' = IF j \in DOMAIN jobs
               THEN [jobs EXCEPT ![j] = UnsaveUpdate(@, u)]
               ELSE jobs
    /\ job_lifecycle_logs' = log_job_event(j, "unsaved", u)
    /\ system_logs' = << >>
    /\ lastOp' = Op("update_one", j, u, "ok", 0)
    /\ inflight' = With(inflight, h, Coroutine("unsave", j, u, "reread", << >>, Null))
    /\ UNCHANGED applications
    /\ UNCHANGED concurrentOnly

\* unsave_job's find_one after the update: the handler returns unless the
\* posting it reads has nobody in saved_by and applied_by.
UnsaveReread(h) ==
    /\ h \in DOMAIN inflight
    /\ inflight[h].op = "unsave"
    /\ inflight[h].pc = "reread"
    /\ LET j == inflight[h].job
           u == inflight[h].user
       IN  IF j \in DOMAIN jobs /\ jobs[j].saved_by = << >> /\ jobs[j].applied_by = << >>
           THEN /\ inflight' = [inflight EXCEPT ![h].pc = "mark"]
                /\ lastOp' = Op("find_one", j, u, "ok", 0)
           ELSE /\ inflight' = Without(inflight, h)
                /\ lastOp' = Op("unsave", j, u, "Job unsaved successfully", 0)
    /\ job_lifecycle_logs' = << >>
    /\ system_logs' = << >>
    /\ UNCHANGED <<jobs, applications, requests>>
    /\ UNCHANGED concurrentOnly

\* unsave_job's mark_job_for_deletion and its return.
UnsaveReturn(h) ==
    /\ h \in DOMAIN inflight
    /\ inflight[h].op = "unsave"
    /\ inflight[h].pc = "mark"
    /\ LET j == inflight[h].job
           u == inflight[h].user
       IN  /\ jobs' = IF j \in DOMAIN jobs
                      THEN [jobs EXCEPT ![j] = mark_job_for_deletion(@, now, ExpiryDays)]
                      ELSE jobs
           /\ lastOp' = Op("unsave", j, u, "Job unsaved successfully", 0)
    /\ inflight' = Without(inflight, h)
    /\ job_lifecycle_logs' = << >>
    /\ system_logs' = << >>
    /\ UNCHANGED <<applications, requests>>
    /\ UNCHANGED concurrentOnly

\* apply_to_job up to its insert_one: the application and the posting are
\* looked up, and the user's resume, which is there.
ApplyFind(h, j, u) ==
    /\ Free(h)
    /\ requests < MaxRequests
    /\ requests' = requests + 1
    /\ job_lifecycle_logs' = << >>
    /\ system_logs' = << >>
    /\ UNCHANGED <<jobs, applications>>
    /\ UNCHANGED concurrentOnly
    /\ IF Application(u, j) \in applications
       THEN /\ lastOp' = Op("apply", j, u, "Already applied to this job", 0)
            /\ UNCHANGED inflight
       ELSE IF j \notin DOMAIN jobs
       THEN /\ lastOp' = Op("apply", j, u, "Job not found", 0)
            /\ UNCHANGED inflight
       ELSE /\ lastOp' = Op("find_one", j, u, "ok", 0)
            /\ inflight' = With(inflight, h, Coroutine("apply", j, u, "insert", << >>, Null))

\* apply_to_job's insert_one into db.applications.
ApplyInsert(h) ==
    /\ h \in DOMAIN inflight
    /\ inflight[h].op = "apply"
    /\ inflight[h].pc = "insert"
    /\ applications' = applications \cup {Application(inflight[h].user, inflight[h].job)}
    /\ inflight' = [inflight EXCEPT ![h].pc = "update"]
    /\ job_lifecycle_logs' = << >>
    /\ system_logs' = << >>
    /\ lastOp' = Op("insert_one", inflight[h].job, inflight[h].user, "ok", 0)
    /\ UNCHANGED <<jobs, requests>>
    /\ UNCHANGED concurrentOnly

\* apply_to_job's update_one, which changes nothing when the posting is gone,
\* its log_job_event and its return.
ApplyReturn(h) ==
    /\ h \in DOMAIN inflight
    /\ inflight[h].op = "apply"
    /\ inflight[h].pc = "update"
    /\ LET j == inflight[h].job
           u == inflight[h].user
       IN  /\ jobs' = IF j \in DOMAIN jobs
                      THEN [jobs EXCEPT ![j] = ApplyUpdate(@, u)]
                      ELSE jobs
           /\ job_lifecycle_logs' = log_job_event(j, "applied", u)
           /\ lastOp' = Op("apply", j, u, "Application submitted successfully", 0)
    /\ inflight' = Without(inflight, h)
    /\ system_logs' = << >>
    /\ UNCHANGED <<applications, requests>>
    /\ UNCHANGED concurrentOnly

RECURSIVE Ascending(_)
\* the ids of S in the order the cursor yields them
Ascending(S) ==
    IF S = {} THEN << >>
    ELSE LET least == CHOOSE x \in S : \A y \in S : x <= y
         IN  <<least>> \o Ascending(S \ {least})

\* sync_job_counts opens its cursor over db.jobs.
SyncStart ==
    /\ SyncId \notin DOMAIN inflight
    /\ jobs # << >>
    /\ inflight' = With(inflight, SyncId,
                        Coroutine("sync", NoJob, NoUser, "read", Ascending(DOMAIN jobs), Null))
    /\ job_lifecycle_logs' = << >>
    /\ system_logs' = << >>
    /\ lastOp' = Op("find", NoJob, NoUser, "ok", 0)
    /\ UNCHANGED <<jobs, applications, requests>>
    /\ UNCHANGED concurrentOnly

\* The cursor yields the next posting, unless it was deleted meanwhile; the
\* pass returns when the cursor is exhausted.
SyncRead ==
    /\ SyncId \in DOMAIN inflight
    /\ inflight[SyncId].pc = "read"
    /\ LET c == inflight[SyncId]
       IN  IF c.todo = << >>
           THEN /\ inflight' = Without(inflight, SyncId)
                /\ lastOp' = Op("sync", NoJob, NoUser, "ok", 0)
           ELSE LET k == Head(c.todo)
                IN  /\ inflight' = [inflight EXCEPT ![SyncId] =
                          IF k \in DOMAIN jobs
                          THEN Coroutine("sync", k, NoUser, "write", Tail(c.todo), Some(jobs[k]))
                          ELSE Coroutine("sync", NoJob, NoUser, "read", Tail(c.todo), Null)]
                    /\ lastOp' = Op("next", k, NoUser, "ok", 0)
    /\ job_lifecycle_logs' = << >>
    /\ system_logs' = << >>
    /\ UNCHANGED <<jobs, applications, requests>>
    /\ UNCHANGED concurrentOnly

\* sync_job_counts' update_one for the posting it read: the counts are set to
\* the lengths of the lists in the document the cursor yielded.
SyncWrite ==
    /\ SyncId \in DOMAIN inflight
    /\ inflight[SyncId].pc = "write"
    /\ LET c == inflight[SyncId]
           k == c.job
           counted == SyncedCounts(The(c.seen))
       IN  /\ jobs' = IF k \in DOMAIN jobs
                      THEN [jobs EXCEPT ![k] = [@ EXCEPT !.apply_count = counted.apply_count,
                                                         !.save_count = counted.save_count]]
                      ELSE jobs
           /\ inflight' = [inflight EXCEPT ![SyncId] =
                              Coroutine("sync", NoJob, NoUser, "read", c.todo, Null)]
           /\ lastOp' = Op("sync_write", k, NoUser, "ok", 0)
    /\ job_lifecycle_logs' = << >>
    /\ system_logs' = << >>
    /\ UNCHANGED <<applications, requests>>
    /\ UNCHANGED concurrentOnly

\* The sweep between two store calls of the coroutines in flight.
ConcurrentSweep ==
    /\ cleanup_expired_jobs
    /\ UNCHANGED inflight

\* The administrator creates the posting.
ConcurrentCreate ==
    /\ nextId \in Contended
    /\ create_job

NextConcurrent ==
    \/ ConcurrentCreate
    \/ Tick
    \/ ConcurrentSweep
    \/ \E h \in HandlerIds, j \in Contended, u \in Users : SaveFind(h, j, u)
    \/ \E h \in HandlerIds : SaveWrite(h)
    \/ \E h \in HandlerIds : SaveReturn(h)
    \/ \E h \in HandlerIds, j \in Contended, u \in Users : UnsaveWrite(h, j, u)
    \/ \E h \in HandlerIds : UnsaveReread(h)
    \/ \E h \in HandlerIds : UnsaveReturn(h)
    \/ \E h \in HandlerIds, j \in Contended, u \in Users : ApplyFind(h, j, u)
    \/ \E h \in HandlerIds : ApplyInsert(h)
    \/ \E h \in HandlerIds : ApplyReturn(h)
    \/ SyncStart
    \/ SyncRead
    \/ SyncWrite

SpecConcurrent == Init /\ [][NextConcurrent]_vars

----------------------------------------------------------------------------
(* Properties of the lifecycle, checked under Spec.                        *)

Present(j) == j \in DOMAIN jobs
Age(job) == now - job.created_at
Occurrences(s, x) == Cardinality({i \in DOMAIN s : s[i] = x})
ApplySucceeded ==
    \/ lastOp.op = "apply" /\ lastOp.result = "Application submitted successfully"
    \/ lastOp.op = "apply_external" /\ lastOp.result = "Application marked successfully"

\* C1: in every reachable state, a posting whose expires_at is set has empty
\* applied_by and empty saved_by.  (Stated as claimed; the external apply
\* breaks it.)
C1_ExpiryExcludesInteraction ==
    \A j \in DOMAIN jobs :
        jobs[j].expires_at # Null =>
            jobs[j].applied_by = << >> /\ jobs[j].saved_by = << >>

\* C2: a posting with a non-empty applied_by is removed by no step other than
\* the administrative delete of that posting, and its applied_by stays
\* non-empty: neither sweep nor save, unsave, sync, or the deletion of the
\* application takes it out of the store.
C2_AppliedNeverSwept ==
    [][\A j \in DOMAIN jobs :
          jobs[j].applied_by # << >> =>
              \/ j \in DOMAIN jobs' /\ jobs'[j].applied_by # << >>
              \/ lastOp'.op = "delete_job" /\ lastOp'.job = j]_vars

\* A sweep has just deleted a posting and kept one that is older than the
\* retention window because somebody applied to it.
C2_Witness ==
    /\ lastOp.op = "cleanup"
    /\ lastOp.count = 1
    /\ \E j \in DOMAIN jobs :
          /\ jobs[j].applied_by # << >>
          /\ jobs[j].saved_by = << >>
          /\ Age(jobs[j]) > 24

C4_ApplyClearsExpiry ==
    ApplySucceeded /\ Present(lastOp.job) => jobs[lastOp.job].expires_at = Null

C6_SaveIdempotent ==
    /\ [][lastOp'.op = "save" /\ lastOp'.job \in DOMAIN jobs
            /\ lastOp'.user \in Range(jobs[lastOp'.job].saved_by) =>
              /\ jobs' = jobs
              /\ job_lifecycle_logs' = << >>
              /\ lastOp'.result = "Already saved"]_vars
    /\ [](\A j \in DOMAIN jobs : \A u \in Users :
              Occurrences(jobs[j].saved_by, u) <= 1)

\* A repeated save has just been answered: the user is in saved_by once and
\* save_count is 1.
C6_Witness ==
    /\ lastOp.op = "save"
    /\ lastOp.result = "Already saved"
    /\ Present(lastOp.job)
    /\ jobs[lastOp.job].saved_by = <<lastOp.user>>
    /\ jobs[lastOp.job].save_count = 1

----------------------------------------------------------------------------
(* Properties of the ingestion, checked under SpecIngest.                  *)

RunReturned == lastOp.op = "scrape_all"

\* The adapters of the last run whose coroutine or whose scrape_jobs raised.
Raising == {a \in Adapters : \/ IsException(lastRun.results[a])
                             \/ lastRun.got[a].raised}

RECURSIVE SumField(_, _, _)
SumField(results, field, S) ==
    IF S = {} THEN 0
    ELSE LET a == CHOOSE x \in S : TRUE
         IN  results[a][field] + SumField(results, field, S \ {a})

C9_AdapterFailureIsolated ==
    RunReturned =>
        LET others == Adapters \ Raising
        IN  /\ lastRun.finished
            /\ lastOp.result = "success"
            /\ lastRun.totals.total_errors
                  = Cardinality(Raising) + SumField(lastRun.results, "errors", others)
            /\ lastRun.totals.total_scraped = SumField(lastRun.results, "scraped", others)
            /\ lastRun.totals.total_stored = SumField(lastRun.results, "stored", others)
            /\ lastRun.totals.total_duplicates = SumField(lastRun.results, "duplicates", others)

\* A run has returned in which one adapter's coroutine raised and the other
\* stored its postings.
C9_Witness ==
    /\ RunReturned
    /\ IsException(lastRun.results["GitHub"])
    /\ lastRun.totals.total_errors = 1
    /\ lastRun.totals.total_stored = 2

\* C10: no adapter's coroutine raises to the orchestrator, and an adapter
\* whose fetch failed reports scraped = 0, stored = 0 and at least one error.
C10_FetchFailureReported ==
    tasks # NoTasks =>
        \A a \in Adapters :
            /\ tasks[a].pc # "raised"
            /\ (tasks[a].pc = "done" /\ upstream[a].fetch # "ok") =>
                  /\ tasks[a].outcome.scraped = 0
                  /\ tasks[a].outcome.stored = 0
                  /\ tasks[a].outcome.errors >= 1


----------------------------------------------------------------------------
(* Properties of the scheduler and of store failures, checked under        *)
(* SpecSched.                                                              *)

\* C12: start() on a running scheduler and stop() on a stopped one raise
\* nothing and change neither the running flag nor the registry; the scheduler
\* is running exactly when the last of the start/stop calls was a start(); and
\* the registry never holds more than one cleanup job and one sync job.
C12_StartStopIdempotent ==
    /\ [][/\ lastOp'.op \in {"start", "stop"} => lastOp'.result # "raised"
          /\ (lastOp'.op = "start" /\ scheduler.is_running) => scheduler' = scheduler
          /\ (lastOp'.op = "stop" /\ ~scheduler.is_running) => scheduler' = scheduler
          /\ lastOp'.op = "start" => scheduler'.is_running /\ scheduler'.state = "running"
          /\ lastOp'.op = "stop" => ~scheduler'.is_running /\ scheduler'.state = "stopped"
          /\ lastOp'.op \notin {"start", "stop"} => scheduler' = scheduler]_vars
    /\ [](\A id \in Range(ScheduledJobs) : Occurrences(scheduler.jobs, id) <= 1)

\* start() has just been called on a scheduler that was already running, which
\* still holds its two jobs.
C12_Witness ==
    /\ lastOp.op = "start"
    /\ lastOp.result = "already running"
    /\ scheduler.is_running
    /\ scheduler.jobs = ScheduledJobs


\* C13: every invocation of the sweep writes exactly one cleanup event: with
\* status success and the number deleted when delete_many succeeded, zero
\* included, and with status failed when it raised.
C13_OneCleanupRecord ==
    lastOp.op = "cleanup" =>
        /\ Len(system_logs) = 1
        /\ system_logs[1].event = "job_cleanup"
        /\ system_logs[1].deleted_count = lastOp.count
        /\ system_logs[1].status = (IF lastOp.result = "ok" THEN "success" ELSE "failed")

\* C14: a sweep or a count sync during which a store call raises returns 0
\* and leaves one failed outcome record in the system log.
C14_StoreFailureLogged ==
    (lastOp.op \in {"cleanup", "sync"} /\ lastOp.result = "failed") =>
        /\ lastOp.count = 0
        /\ Len(system_logs) = 1
        /\ system_logs[1].status = "failed"


----------------------------------------------------------------------------
(* Properties of an adapter's requests, checked under SpecFetch.           *)

Failed(outcome) == outcome # "ok"

\* C15: fetch_with_retry makes at most 3 attempts and none after a success;
\* it sleeps 1 s after the first failed attempt and 2 s after the second and
\* not after the third; after 3 failures it returns None.
C15_RetryBackoff ==
    /\ [](/\ Len(scraper.outcomes) <= 3
          /\ \A i \in DOMAIN scraper.outcomes :
                i < Len(scraper.outcomes) => Failed(scraper.outcomes[i])
          /\ scraper.pc \in {"rate_limit", "get"} =>
                /\ \A i \in DOMAIN scraper.outcomes : Failed(scraper.outcomes[i])
                /\ scraper.slept = SubSeq(<<1, 2>>, 1, Len(scraper.outcomes))
          /\ scraper.pc = "done" =>
                LET n == Len(scraper.outcomes)
                IN  /\ n >= 1
                    /\ scraper.slept = SubSeq(<<1, 2>>, 1, n - 1)
                    /\ (scraper.result = Null) <=> Failed(scraper.outcomes[n])
                    /\ Failed(scraper.outcomes[n]) => n = 3)
    /\ [][(scraper.pc = "get" /\ scraper'.pc = "done") =>
              scraper'.clock = scraper.clock]_vars

\* A fetch has returned None after three failed attempts and two sleeps.
C15_Witness ==
    /\ scraper.pc = "done"
    /\ scraper.result = Null
    /\ Len(scraper.outcomes) = 3
    /\ scraper.slept = <<1, 2>>


\* C16: an adapter sends no more than max_requests_per_minute requests within
\* any one minute.
C16_RateLimitAnyMinute ==
    Len(scraper.recent) <= MaxRequestsPerMinute

\* C16, amended: an adapter sends no more than max_requests_per_minute
\* requests between two resets of its counter; a request that finds the budget
\* of the window used up is held until the window is 60 s old, the counter is
\* reset, and the request then goes out: every call of rate_limit is followed
\* by its request.
C16_RateLimitPerWindow ==
    /\ [](scraper.issued <= MaxRequestsPerMinute)
    /\ [][scraper.pc = "rate_limit" =>
             /\ scraper'.pc \in {"rate_limit", "get"}
             /\ scraper'.pc = "get" =>
                   /\ (/\ scraper.issued = MaxRequestsPerMinute
                       /\ scraper.clock - scraper.last_request_time < Window)
                         => scraper'.waited > 0
                   /\ scraper'.waited > 0 =>
                         /\ scraper'.clock = scraper.last_request_time + Window
                         /\ scraper'.last_request_time = scraper'.clock
                         /\ scraper'.request_count = 0
                         /\ scraper'.issued = 1]_vars

\* A request has gone out after rate_limit held it for 58 seconds, the budget
\* of the window having been used up by the requests before it.
C16_Witness ==
    /\ scraper.pc = "get"
    /\ scraper.waited = 58
    /\ scraper.clock = 62
    /\ scraper.issued = 1


----------------------------------------------------------------------------
(* Properties of the matcher, checked under SpecMatch.                     *)

\* The sub-score of a deviation of diff from base, both doubled midpoints.
DeviationScore(diff, base) ==
    IF Abs(diff) * 100 <= 10 * base THEN 100
    ELSE IF Abs(diff) * 100 <= 20 * base THEN 85
    ELSE IF Abs(diff) * 100 <= 30 * base THEN 70
    ELSE IF Abs(diff) * 100 <= 50 * base THEN 50
    ELSE 25

\* C17: the salary sub-score is 75 when the posting or the preferences have
\* no salary; otherwise it follows the deviation of the posting's midpoint
\* from the preference midpoint, which for the bands 100000-120000 and
\* 150000-150000 is 36.4 percent (40000 of 110000), with sub-score 50.
C17_SalaryScore ==
    (matcher.called /\ matcher.fn = "salary") =>
        LET jb == matcher.job_band
            pb == matcher.pref_band
        IN  /\ ((Falsy(jb[1]) /\ Falsy(jb[2])) \/ (Falsy(pb[1]) /\ Falsy(pb[2])))
                  => matcher.result = 75
            /\ (jb = <<Some(100000), Some(120000)>> /\ pb = <<Some(150000), Some(150000)>>)
                  => /\ matcher.result = DeviationScore(220000 - 300000, 220000)
                     /\ matcher.result = 50

\* The skills a posting requires, under whichever name it carries them.
RequiredOf(job) ==
    IF "required_skills" \in DOMAIN job THEN job.required_skills
    ELSE job.skills_required

\* C18: for a posting built by normalize_job_data or create_job with required
\* skills R and a resume with skills C, calculate_job_match returns the skills
\* sub-score 100 * (members of R found in C, case ignored) / |R|, 100 for an
\* empty R and 0 for an empty C, and lists the other members of R as missing.
C18_SkillsScoreOfStoredPosting ==
    (/\ matcher.called
     /\ matcher.fn = "match"
     /\ matcher.resume # Null
     /\ "required_skills" \in DOMAIN matcher.job) =>
        LET R == matcher.job.required_skills
            C == LowerAll(The(matcher.resume).skills)
            found == SelectSeq(R, LAMBDA r : Lower(r) \in Range(C))
            others == SelectSeq(R, LAMBDA r : Lower(r) \notin Range(C))
        IN  /\ matcher.result.criterion_scores.skills =
                  (IF R = << >> THEN 1000
                   ELSE IF C = << >> THEN 0
                   ELSE RoundTenths(100 * Len(found), Len(R)))
            /\ matcher.result.missing_skills = others

\* C19: when a call of the matcher is repeated with one more skill in the
\* resume, a skill the posting requires, and everything else the same, the
\* overall score is not lower than before.
C19_MonotonicInSkills ==
    [][(/\ matcher.called /\ matcher'.called
        /\ matcher.fn = "match" /\ matcher'.fn = "match"
        /\ matcher.resume # Null /\ matcher'.resume # Null
        /\ matcher'.job = matcher.job
        /\ matcher'.preferences = matcher.preferences
        /\ The(matcher'.resume).experience = The(matcher.resume).experience
        /\ \E skill \in Range(The(matcher'.resume).skills) :
              /\ The(matcher'.resume).skills = Append(The(matcher.resume).skills, skill)
              /\ Lower(skill) \in Range(LowerAll(RequiredOf(matcher.job)))) =>
            /\ matcher'.result.overall_score >= matcher.result.overall_score
            /\ matcher'.result.overall.num * matcher.result.overall.den
                  >= matcher.result.overall.num * matcher'.result.overall.den]_vars

\* The matcher has been run on a posting that names its skills as the matcher
\* reads them, for a resume that holds all three of them.
C19_Witness ==
    /\ matcher.called
    /\ matcher.fn = "match"
    /\ matcher.resume # Null
    /\ "skills_required" \in DOMAIN matcher.job
    /\ matcher.job.skills_required = <<"Python", "AWS", "docker">>
    /\ The(matcher.resume).skills = <<"python", "docker", "aws">>
    /\ matcher.result.criterion_scores.skills = 1000

\* The level a number of experience entries stands for, as claimed.
ClaimedLevel(n) ==
    IF n >= 7 THEN 4 ELSE IF n >= 5 THEN 3 ELSE IF n >= 2 THEN 2 ELSE 1

DistanceScore(d) ==
    IF d = 0 THEN 100 ELSE IF d = 1 THEN 75 ELSE IF d = 2 THEN 50 ELSE 25

OnScale(level) == level \in {"Entry", "Mid", "Senior", "Lead"}

\* C20: the seniority sub-score is 100 for a posting without level; otherwise
\* it follows the distance between the posting's level and the candidate's,
\* which is the preferred level when one is set and else the level the number
\* n of experience entries stands for: Lead from 7, Senior from 5, Mid from 2,
\* Entry below, n = 0 included.
C20_SeniorityScore ==
    (/\ matcher.called
     /\ matcher.fn = "experience"
     /\ matcher.job_experience = "" \/ OnScale(matcher.job_experience)
     /\ matcher.pref_experience = Null \/ OnScale(The(matcher.pref_experience))) =>
        IF matcher.job_experience = "" THEN matcher.result = 100
        ELSE LET candidate == IF matcher.pref_experience # Null
                              THEN experience_levels[The(matcher.pref_experience)]
                              ELSE ClaimedLevel(matcher.entries)
             IN  matcher.result =
                    DistanceScore(Abs(experience_levels[matcher.job_experience] - candidate))

\* C20, amended: as C20, except that a resume without experience entries
\* stands for Mid: the level inferred from n entries is Lead from 7, Senior
\* from 5, Mid from 2, Entry for n = 1 and Mid for n = 0.
C20_SeniorityScoreMidWhenEmpty ==
    (/\ matcher.called
     /\ matcher.fn = "experience"
     /\ matcher.job_experience = "" \/ OnScale(matcher.job_experience)
     /\ matcher.pref_experience = Null \/ OnScale(The(matcher.pref_experience))) =>
        IF matcher.job_experience = "" THEN matcher.result = 100
        ELSE LET candidate == IF matcher.pref_experience # Null
                              THEN experience_levels[The(matcher.pref_experience)]
                              ELSE IF matcher.entries = 0 THEN 2
                              ELSE ClaimedLevel(matcher.entries)
             IN  matcher.result =
                    DistanceScore(Abs(experience_levels[matcher.job_experience] - candidate))

\* The sub-score has been computed for an Entry posting and a resume without
\* experience entries and without preferred level.
C20_Witness ==
    /\ matcher.called
    /\ matcher.fn = "experience"
    /\ matcher.job_experience = "Entry"
    /\ matcher.entries = 0
    /\ matcher.pref_experience = Null
    /\ matcher.result = 75

----------------------------------------------------------------------------
(* Properties of the scheduler's registry, checked under SpecSched.        *)

\* C21: after start() has started the scheduler, its registry holds a
\* periodic job for the lifecycle sweep, for the ingestion orchestrator and
\* for the count sync, so that each of them is invoked again and again while
\* the scheduler runs.
C21_RegistryHoldsPeriodicJobs ==
    (lastOp.op = "start" /\ lastOp.result = "started") =>
        {"job_cleanup", "job_scraping", "job_sync"} \subseteq Range(scheduler.jobs)

----------------------------------------------------------------------------
(* Properties of the expiry marker, checked under Spec.                    *)

\* C22: the sweep does not delete a posting that carries an expiry marker
\* before the marker's time has passed, so a posting whose last save was
\* removed stays in the store for 3 days unless an administrator deletes it.
C22_SweepHonoursExpiryMarker ==
    [][\A j \in DOMAIN jobs :
          (/\ lastOp'.op = "cleanup"
           /\ jobs[j].expires_at # Null
           /\ j \notin DOMAIN jobs') => now >= The(jobs[j].expires_at)]_vars

----------------------------------------------------------------------------
(* Termination of an ingestion run, checked under SpecIngest.              *)

\* A step of the run in progress: a step of one of its adapters, or the
\* return of gather.
RunStep ==
    \/ \E a \in Adapters, entered \in BOOLEAN : TaskScrape(a, entered)
    \/ \E a \in Adapters : TaskCheck(a)
    \/ \E a \in Adapters, reply \in Replies : TaskInsert(a, reply)
    \/ \E logged \in BOOLEAN : FinishRun(logged)

\* C23: an ingestion run always terminates: the enrichment call is bounded by
\* a timeout after which the unenriched posting is stored, so that a run in
\* progress can always take its next step, up to the return of its summary,
\* even when an enrichment call is not answered.
C23_RunCanAlwaysProceed ==
    (tasks # NoTasks /\ nextId <= MaxIds) => ENABLED RunStep

----------------------------------------------------------------------------
(* Aggregation of a run, checked under SpecIngest.                         *)

\* The adapters whose outcome the summary of the last run does not list.
Unlisted == Adapters \ DOMAIN lastRun.platforms

\* C24: the totals are computed when every adapter has completed or failed;
\* each of the four totals is the sum of that count over the outcomes the
\* summary lists; and exactly one record with these totals is appended to
\* the log.
C24_TotalsAreSumsOfListed ==
    [][lastOp'.op = "scrape_all" =>
          /\ \A a \in Adapters : tasks[a].pc \in {"done", "raised"}
          /\ LET listed == lastRun'.platforms
                 totals == lastRun'.totals
             IN  /\ totals.total_scraped = SumField(listed, "scraped", DOMAIN listed)
                 /\ totals.total_stored = SumField(listed, "stored", DOMAIN listed)
                 /\ totals.total_duplicates = SumField(listed, "duplicates", DOMAIN listed)
                 /\ totals.total_errors = SumField(listed, "errors", DOMAIN listed)
                 /\ Len(system_logs') = 1
                 /\ system_logs'[1].event = "job_scraping"
                 /\ system_logs'[1].totals = totals]_vars

\* C24, amended: as C24, except that an adapter whose task raised is not
\* listed and adds 1 to the total of errors, and that the record is appended
\* when the insert into the log succeeds and no record otherwise.
C24_TotalsAreSumsAndRaised ==
    [][lastOp'.op = "scrape_all" =>
          /\ \A a \in Adapters : tasks[a].pc \in {"done", "raised"}
          /\ LET listed == lastRun'.platforms
                 totals == lastRun'.totals
                 raised == {a \in Adapters : tasks[a].pc = "raised"}
             IN  /\ DOMAIN listed = Adapters \ raised
                 /\ totals.total_scraped = SumField(listed, "scraped", DOMAIN listed)
                 /\ totals.total_stored = SumField(listed, "stored", DOMAIN listed)
                 /\ totals.total_duplicates = SumField(listed, "duplicates", DOMAIN listed)
                 /\ totals.total_errors
                       = SumField(listed, "errors", DOMAIN listed) + Cardinality(raised)
                 /\ Len(system_logs') = (IF lastRun'.logged THEN 1 ELSE 0)
                 /\ lastRun'.logged =>
                       /\ system_logs'[1].event = "job_scraping"
                       /\ system_logs'[1].totals = totals]_vars

\* A run has returned and was logged in which one adapter's task raised, so
\* that the summary lists the other adapter only, with its two postings.
C24_Witness ==
    /\ RunReturned
    /\ Unlisted = {"GitHub"}
    /\ lastRun.platforms["RemoteOK"].stored = 2
    /\ lastRun.totals.total_errors = 1
    /\ Len(system_logs) = 1
    /\ system_logs[1].totals = lastRun.totals

----------------------------------------------------------------------------
(* The audit trail, checked under Spec.                                    *)

\* C25: every lifecycle transition is audited exactly once: an apply through
\* either entry point appends one applied event, a save that adds the user
\* one saved event, an unsave that removes the user one unsaved event, each
\* for that posting and user; and a save, unsave or apply that leaves every
\* posting as it was appends nothing.
C25_TransitionsAuditedOnce ==
    [][LET j == lastOp'.job
           u == lastOp'.user
       IN  /\ (lastOp'.op \in {"apply", "apply_external"}
                 /\ lastOp'.result \in {"Application submitted successfully",
                                        "Application marked successfully"})
                 => job_lifecycle_logs' = <<Event(j, "applied", u)>>
           /\ (lastOp'.op = "save" /\ lastOp'.result = "Job saved successfully")
                 => job_lifecycle_logs' = <<Event(j, "saved", u)>>
           /\ (lastOp'.op = "unsave" /\ j \in DOMAIN jobs /\ u \in Range(jobs[j].saved_by))
                 => job_lifecycle_logs' = <<Event(j, "unsaved", u)>>
           /\ (lastOp'.op \in {"apply", "apply_external", "save", "unsave"} /\ jobs' = jobs)
                 => job_lifecycle_logs' = << >>]_vars

----------------------------------------------------------------------------
(* Uniqueness of the source url, checked under SpecOverlap.                *)

\* C26: no two postings in the store have the same source url, also when two
\* ingestion runs overlap: the duplicate check of one run and its insert are
\* not separated by the insert of the same posting by the other run.
C26_UniqueSourceUrl ==
    \A i, j \in DOMAIN jobs :
        (i # j /\ jobs[i].job_url # Null) => jobs[i].job_url # jobs[j].job_url

----------------------------------------------------------------------------
(* Overlapping handlers, checked under SpecConcurrent.                     *)

\* C27: when apply or save reports success to the user, the posting is in the
\* store with that user in applied_by, respectively saved_by, whatever a
\* sweep running at the same time has done.  (Stated for a request that is
\* the only one made, so that nothing but a lifecycle pass can overlap it.)
C27_SuccessMeansRecorded ==
    requests = 1 =>
        /\ (lastOp.op = "save" /\ lastOp.result = "Job saved successfully") =>
              /\ Present(lastOp.job)
              /\ lastOp.user \in Range(jobs[lastOp.job].saved_by)
        /\ (lastOp.op = "apply" /\ lastOp.result = "Application submitted successfully") =>
              /\ Present(lastOp.job)
              /\ \E i \in DOMAIN jobs[lastOp.job].applied_by :
                    jobs[lastOp.job].applied_by[i].user_id = lastOp.user

----------------------------------------------------------------------------
(* Counts under sequential save and unsave, checked under Spec.            *)

\* C28: an unsave by a user who has not saved the posting changes neither
\* saved_by nor save_count.
C28_UnsaveByNonSaverChangesNothing ==
    [][\A j \in DOMAIN jobs :
          (/\ lastOp'.op = "unsave"
           /\ lastOp'.job = j
           /\ lastOp'.user \notin Range(jobs[j].saved_by)) =>
              /\ j \in DOMAIN jobs'
              /\ jobs'[j].saved_by = jobs[j].saved_by
              /\ jobs'[j].save_count = jobs[j].save_count]_vars

----------------------------------------------------------------------------
(* saved_by under overlapping saves, checked under SpecConcurrent.         *)

\* C29: saved_by behaves as a set: in every reachable state, also when two
\* save requests of one user for one posting are handled at the same time,
\* the user occurs at most once in saved_by.
C29_SavedByIsSet ==
    \A j \in DOMAIN jobs : \A u \in Users : Occurrences(jobs[j].saved_by, u) <= 1

----------------------------------------------------------------------------
(* The count sync under overlapping requests, checked under SpecConcurrent. *)

\* C30: a sync pass loses no update: when the pass writes the counts of a
\* posting while no request on that posting is under way, every request that
\* completed since the pass read the posting included, apply_count and
\* save_count equal the lengths of applied_by and saved_by after the write.
C30_SyncLosesNoUpdate ==
    [][\A k \in DOMAIN jobs :
          (/\ lastOp'.op = "sync_write"
           /\ lastOp'.job = k
           /\ \A h \in DOMAIN inflight \cap HandlerIds : inflight[h].job # k
           \* the counts were right when the pass read the posting
           /\ The(inflight[SyncId].seen).apply_count = Len(The(inflight[SyncId].seen).applied_by)
           /\ The(inflight[SyncId].seen).save_count = Len(The(inflight[SyncId].seen).saved_by)) =>
              /\ jobs'[k].apply_count = Len(jobs'[k].applied_by)
              /\ jobs'[k].save_count = Len(jobs'[k].saved_by)]_vars

====
